---- MODULE Spec2Model ----
(***************************************************************************)
(* SecureScan AI (tarunvipparti/NEXORA): the scan-to-verdict pipeline.     *)
(*                                                                         *)
(*   src/server.ts           POST /api/analyze, getRiskLevel (server copy) *)
(*   src/unnamed/part_000    analyzeUrl (services/gemini)                  *)
(*   src/unnamed/part_001    Scanner component (camera effect, tick)       *)
(*   src/unnamed/part_002    ScanResult / AppState types                   *)
(*   src/src/utils.ts        getRiskLevel (client copy)                    *)
(*   src/src/App.tsx         AppContent: handleScan, navigateTo, uploads   *)
(*                                                                         *)
(* JavaScript objects are records with a field "present" naming the keys   *)
(* the object has and a field "nulls" naming those of them that hold null; *)
(* a key that is absent or null holds a filler value that is never read.   *)
(* A response body or an AI output is a text with a tag telling how        *)
(* JSON.parse treats it.                                                   *)
(***************************************************************************)
EXTENDS Integers, Sequences, FiniteSets, Bags, TLC

VARIABLES
    screen,         \* AppState.screen
    currentResult,  \* AppState.currentResult (NoResult when undefined)
    history,        \* AppState.history
    blockedUrls,    \* AppState.blockedUrls (an array)
    isAnalyzing,    \* useState(false), App.tsx:94
    showAlert,      \* useState(false), App.tsx:95
    now,            \* the value Date.now() returned last
    regular,        \* the clock of this session is regular: Date.now()
                    \* returns a later value in every task, and the same
                    \* value when it is read twice in one task
    random,         \* the number of Math.random() calls made so far
    inflight,       \* bag of analyzeUrl calls awaiting their outcome
    uploads,        \* bag of pending FileReader/Image load callbacks
    scanner,        \* the mounted Scanner and its current effect instance
    zombies,        \* callbacks of cleaned-up effect instances still pending,
                    \* and whether a stream they opened is left open
    api,            \* one POST /api/analyze exchange observed end to end
    cls,            \* one evaluation of both getRiskLevel copies
    localStorage,   \* the two stored keys, and whether the store throws
    hasError,       \* ErrorBoundary state.hasError, App.tsx:29-34
    camera,         \* window.isSecureContext and navigator.mediaDevices
                    \* .getUserMedia are both there, part_001:85-93
    passive,        \* the passive effects of the last commit that have not
                    \* run yet
    queued          \* the state updates queued and not rendered yet

vars == <<screen, currentResult, history, blockedUrls, isAnalyzing, showAlert,
          now, regular, random, inflight, uploads, scanner, zombies, api, cls,
          camera, passive, queued, localStorage, hasError>>

appVars == <<screen, currentResult, history, blockedUrls, isAnalyzing,
             showAlert, now, regular, random, inflight, uploads, scanner,
             zombies, localStorage, hasError, camera, passive, queued>>

-----------------------------------------------------------------------------
(* Bounds of the model.                                                    *)

\* Date.now() returns a value in 0..MaxClock: the clock advances at most
\* MaxClock times between its first reading in a session and its last.
MaxClock == 2
\* Math.random() calls made in one session: the ScanResults built from an
\* assessment.
MaxRandom == 2
\* analyzeUrl calls that may be pending at once.
MaxInFlight == 2
\* image-upload load callbacks that may be pending at once.
MaxUploads == 1
\* leftover callbacks of cleaned-up Scanner effect instances.
MaxZombies == 1
\* history items the user picks: the first MaxPick of the list shown.
MaxPick == 3
\* the classifiers are evaluated on every score in -MaxScore..MaxScore.
MaxScore == 110

\* ScanResults of the history a session starts with in SpecStartup.
MaxStored == 2

\* history.slice(0, 50)
HistoryCap == 50

Urls == {"http://a.example", "http://b.example"}

\* code.data of a decoded QR code: any text, the empty one included.  The
\* forms pass on non-empty text only (if (url) ..., App.tsx:247).
QrPayloads == Urls \cup {""}

Min(a, b) == IF a < b THEN a ELSE b

-----------------------------------------------------------------------------
(* JavaScript objects and JSON texts.                                      *)

Fields == {"url", "error", "riskScore", "riskLevel", "indicators",
           "recommendation", "analysis"}

EmptyObj ==
    [present |-> {}, nulls |-> {}, url |-> "", error |-> "", riskScore |-> 0,
     riskLevel |-> "", indicators |-> <<>>, recommendation |-> "",
     analysis |-> ""]

Has(o, f) == f \in o.present

\* The key is there and holds a value other than null.
HasValue(o, f) == Has(o, f) /\ f \notin o.nulls

\* The object with null as the value of key f.
WithNull(o, f) ==
    [o EXCEPT !.present = @ \cup {f}, !.nulls = @ \cup {f}, ![f] = EmptyObj[f]]

\* A string where an array is expected, as in indicators: "x": truthy, and
\* without a map method.  The sequence stands for it; no array of strings
\* in the model equals it.
NotAnArray == <<"a string, no array">>

\* text || "{}" followed by JSON.parse, and response.json(): what a text
\* parses to.  "throws" stands for the SyntaxError.
TEmpty == [tag |-> "empty", obj |-> EmptyObj]
TInvalid == [tag |-> "invalid", obj |-> EmptyObj]
TNull == [tag |-> "null", obj |-> EmptyObj]
TObject(o) == [tag |-> "object", obj |-> o]

\* JSON.stringify as res.json applies it to an object.
Stringify(o) == TObject(o)

\* JSON.parse(text): kind "throws", "null" or "object".
JsonParse(text) ==
    CASE text.tag = "object" -> [kind |-> "object", obj |-> text.obj]
      [] text.tag = "null"   -> [kind |-> "null", obj |-> EmptyObj]
      [] OTHER               -> [kind |-> "throws", obj |-> EmptyObj]

-----------------------------------------------------------------------------
(* Risk classifier: the two copies.                                        *)

\* src/src/utils.ts:21-25
getRiskLevel(score) ==
    IF score < 30 THEN "safe"
    ELSE IF score < 70 THEN "suspicious"
    ELSE "high-risk"

\* The server copy drifting from the client copy: 30 classified as safe.
serverGetRiskLevelDrifted(score) ==
    IF score <= 30 THEN "safe"
    ELSE IF score < 70 THEN "suspicious"
    ELSE "high-risk"

\* src/server.ts:29-33
serverGetRiskLevel(score) ==
    IF score < 30 THEN "safe"
    ELSE IF score < 70 THEN "suspicious"
    ELSE "high-risk"

-----------------------------------------------------------------------------
(* Assessment Service: POST /api/analyze, src/server.ts:36-91.             *)

\* What ai.models.generateContent does for one request.
\*   nokey  getAI() throws before any call (GEMINI_API_KEY undefined)
\*   throw  the call is made and throws
\*   text   the call returns and response.text is the given text
AiNoKey == [kind |-> "nokey", text |-> TEmpty]
AiThrow == [kind |-> "throw", text |-> TEmpty]
AiText(t) == [kind |-> "text", text |-> t]

AiObject(score, ind, rec, ana) ==
    [EmptyObj EXCEPT !.present = {"riskScore", "indicators", "recommendation",
                                  "analysis"},
                     !.riskScore = score, !.indicators = ind,
                     !.recommendation = rec, !.analysis = ana]

Without(o, f) ==
    [o EXCEPT !.present = @ \ {f}, !.nulls = @ \ {f}, ![f] = EmptyObj[f]]

\* The 500 body with a recommendation of its own.
ServerDegradedReworded ==
    [EmptyObj EXCEPT !.present = {"riskScore", "riskLevel", "indicators",
                                  "recommendation", "analysis"},
        !.riskScore = 50,
        !.riskLevel = "suspicious",
        !.indicators = <<"Analysis failed due to server error">>,
        !.recommendation = "Try again later.",
        !.analysis =
            "We were unable to complete the AI-powered deep scan at this time."]

\* server.ts:83-89
ServerDegraded ==
    [EmptyObj EXCEPT !.present = {"riskScore", "riskLevel", "indicators",
                                  "recommendation", "analysis"},
        !.riskScore = 50,
        !.riskLevel = "suspicious",
        !.indicators = <<"Analysis failed due to server error">>,
        !.recommendation =
            "Proceed with extreme caution. Manual verification required.",
        !.analysis =
            "We were unable to complete the AI-powered deep scan at this time."]

\* server.ts:40
UrlRequired == [EmptyObj EXCEPT !.present = {"error"},
                                !.error = "URL is required"]

HttpResponse(status, o, called) ==
    [status |-> status, text |-> Stringify(o), aiCalled |-> called]

\* data.riskScore || 0, server.ts:79 and App.tsx:133
ScoreOrZero(o) == IF HasValue(o, "riskScore") /\ o.riskScore # 0
                  THEN o.riskScore ELSE 0

\* The spread written last: { riskLevel: ..., ...data }, so that a riskLevel
\* in the AI output wins.
SuccessBodySpreadLast(data) ==
    IF Has(data, "riskLevel") THEN data
    ELSE [data EXCEPT !.present = @ \cup {"riskLevel"},
                      !.nulls = @ \ {"riskLevel"},
                      !.riskLevel = serverGetRiskLevel(ScoreOrZero(data))]

\* server.ts:77-80: { ...data, riskLevel: getRiskLevel(data.riskScore || 0) }
SuccessBody(data) ==
    [data EXCEPT !.present = @ \cup {"riskLevel"},
                 !.nulls = @ \ {"riskLevel"},
                 !.riskLevel = serverGetRiskLevel(ScoreOrZero(data))]

\* The guard testing for a missing url only (url === undefined).
UrlGivenUndefinedOnly(body) == Has(body, "url")

\* server.ts:37-39: const { url } = req.body; url is truthy.
UrlGiven(body) == HasValue(body, "url") /\ body.url # ""

\* The route handler for request body `body` when the AI backend behaves as
\* `ai`: the status, the body sent and whether generateContent was called.
analyzeRoute(body, ai) ==
    IF ~UrlGiven(body)
    THEN HttpResponse(400, UrlRequired, FALSE)                \* :39-41
    ELSE IF ai.kind = "nokey"
    THEN HttpResponse(500, ServerDegraded, FALSE)             \* :44, :81-89
    ELSE IF ai.kind = "throw"
    THEN HttpResponse(500, ServerDegraded, TRUE)              \* :45, :81-89
    ELSE LET text == IF ai.text.tag = "empty"                 \* text || "{}"
                     THEN TObject(EmptyObj) ELSE ai.text
             data == JsonParse(text)                          \* :76
         IN  IF data.kind = "object"
             THEN HttpResponse(200, SuccessBody(data.obj), TRUE) \* :77-80
             \* SyntaxError from JSON.parse, TypeError from null.riskScore
             ELSE HttpResponse(500, ServerDegraded, TRUE)

-----------------------------------------------------------------------------
(* Assessment Client: analyzeUrl, src/unnamed/part_000:3-28.               *)

\* part_000:20-26
ClientDegraded ==
    [EmptyObj EXCEPT !.present = {"riskScore", "riskLevel", "indicators",
                                  "recommendation", "analysis"},
        !.riskScore = 50,
        !.riskLevel = "suspicious",
        !.indicators = <<"Analysis failed due to network error">>,
        !.recommendation =
            "Proceed with extreme caution. Manual verification required.",
        !.analysis =
            "We were unable to complete the AI-powered deep scan at this time."]

\* What fetch() yields: it throws, or it resolves with a status and a body.
NoExchange == [kind |-> "none", status |-> 0, text |-> TEmpty]
FetchThrows == [kind |-> "throw", status |-> 0, text |-> TEmpty]
FetchHttp(status, text) == [kind |-> "http", status |-> status, text |-> text]

\* response.ok
ResponseOk(status) == status >= 200 /\ status <= 299

\* analyzeUrl without the response.ok test: an error body is passed on.
analyzeUrlIgnoringStatus(ex) ==
    IF ex.kind # "http"
    THEN [kind |-> "object", obj |-> ClientDegraded]
    ELSE LET parsed == JsonParse(ex.text)
         IN  IF parsed.kind = "throws"
             THEN [kind |-> "object", obj |-> ClientDegraded]
             ELSE parsed

\* The value analyzeUrl resolves with: kind "object" or "null".
analyzeUrl(ex) ==
    IF ex.kind # "http" \/ ~ResponseOk(ex.status)             \* :5, :13-15
    THEN [kind |-> "object", obj |-> ClientDegraded]          \* :18-27
    ELSE LET parsed == JsonParse(ex.text)                     \* :17
         IN  IF parsed.kind = "throws"
             THEN [kind |-> "object", obj |-> ClientDegraded]
             ELSE parsed

-----------------------------------------------------------------------------
(* Inputs the model draws from.                                            *)

FullObject(score) ==
    AiObject(score, <<"lookalike domain">>, "Do not visit", "...")

\* Outputs the AI backend may hand back as JSON objects: complete ones over
\* the classifier's boundary scores, ones lacking a required key, the empty
\* object, and one that carries a riskLevel of its own.
AiObjects ==
    {FullObject(n) : n \in {0, 10, 29, 30, 50, 69, 70, 85, 100}}
    \cup {Without(FullObject(85), "recommendation"),
          Without(FullObject(85), "riskScore"),
          Without(FullObject(10), "indicators"),
          EmptyObj,
          [FullObject(85) EXCEPT !.present = @ \cup {"riskLevel"},
                                 !.riskLevel = "safe"]}

AiOutcomes ==
    {AiNoKey, AiThrow, AiText(TEmpty), AiText(TInvalid), AiText(TNull)}
    \cup {AiText(TObject(o)) : o \in AiObjects}

\* The outcomes drawn while a session of the application is explored.
SessionAiOutcomes ==
    {AiThrow, AiText(TEmpty), AiText(TObject(FullObject(10))),
     AiText(TObject(FullObject(85))),
     AiText(TObject([FullObject(85) EXCEPT !.present = @ \cup {"riskLevel"},
                                           !.riskLevel = "safe"]))}

RequestBody(url) == [EmptyObj EXCEPT !.present = {"url"}, !.url = url]

\* Bodies POSTed to the route: no url key, an empty url, a url.
RequestBodies == {EmptyObj, RequestBody("")} \cup {RequestBody(u) : u \in Urls}

-----------------------------------------------------------------------------
(* One exchange observed end to end: request -> route -> fetch -> client.  *)

NoResponse == [status |-> 0, text |-> TEmpty, aiCalled |-> FALSE]
NoValue == [kind |-> "none", obj |-> EmptyObj]

ApiIdle == [pc |-> "idle", req |-> EmptyObj, ai |-> AiNoKey,
            resp |-> NoResponse, ex |-> NoExchange, out |-> NoValue]

ClsIdle == [pc |-> "idle", score |-> 0, client |-> "", server |-> ""]

\* The route handles the request.
ApiHandle ==
    /\ api.pc = "request"
    /\ \E ai \in AiOutcomes :
         api' = [api EXCEPT !.pc = "responded", !.ai = ai,
                            !.resp = analyzeRoute(api.req, ai)]
    /\ UNCHANGED <<appVars, cls>>

\* fetch resolves with the response the route sent.
ApiFetchResolves ==
    /\ api.pc = "responded"
    /\ api' = [api EXCEPT !.pc = "fetched",
                          !.ex = FetchHttp(api.resp.status, api.resp.text)]
    /\ UNCHANGED <<appVars, cls>>

\* What may arrive in place of the body the route sent (a cut transfer, an
\* intermediary answering in the service's place): nothing, text that is
\* no JSON, or JSON that is no assessment.
ForeignBodies ==
    {TEmpty, TInvalid, TNull, TObject(EmptyObj),
     TObject(Without(SuccessBody(FullObject(85)), "recommendation"))}

\* fetch resolves with the status the route sent and a body of another
\* origin.
ApiFetchGarbled ==
    /\ api.pc = "responded"
    /\ \E t \in ForeignBodies :
         api' = [api EXCEPT !.pc = "fetched",
                            !.ex = FetchHttp(api.resp.status, t)]
    /\ UNCHANGED <<appVars, cls>>

\* fetch rejects: the transport failed.
ApiFetchThrows ==
    /\ api.pc \in {"request", "responded"}
    /\ api' = [api EXCEPT !.pc = "fetched", !.ex = FetchThrows]
    /\ UNCHANGED <<appVars, cls>>

\* analyzeUrl resolves.
ApiClient ==
    /\ api.pc = "fetched"
    /\ api' = [api EXCEPT !.pc = "done", !.out = analyzeUrl(api.ex)]
    /\ UNCHANGED <<appVars, cls>>

NextApi ==
    \/ ApiHandle
    \/ ApiFetchResolves
    \/ ApiFetchGarbled
    \/ ApiFetchThrows
    \/ ApiClient

-----------------------------------------------------------------------------
(* One evaluation of the two classifiers on the same score.                *)

Classify ==
    /\ cls.pc = "input"
    /\ cls' = [cls EXCEPT !.pc = "done",
                          !.client = getRiskLevel(cls.score),
                          !.server = serverGetRiskLevel(cls.score)]
    /\ UNCHANGED <<appVars, api>>

NextClassify == Classify

-----------------------------------------------------------------------------
(* AppContent state, src/src/App.tsx:74-158, and ScanResult, part_002.     *)

Range(seq) == {seq[i] : i \in 1..Len(seq)}

NoId == [kind |-> "none", n |-> 0]

\* currentResult is undefined until a result is shown.
NoResult ==
    [id |-> NoId, url |-> "", timestamp |-> 0, riskScore |-> 0,
     riskLevel |-> "", indicators |-> <<>>, recommendation |-> "",
     analysis |-> ""]

\* App.tsx:105-114: 'blocked-' + Date.now() for the id (:106), then
\* Date.now() again for the timestamp (:108); t1 and t2 are the two values
\* read.
blockedResult(url, t1, t2) ==
    [id |-> [kind |-> "blocked", n |-> t1],
     url |-> url,
     timestamp |-> t2,
     riskScore |-> 100,
     riskLevel |-> "high-risk",
     indicators |->
         <<"This URL was previously blocked due to high security risks.">>,
     recommendation |-> "Do not attempt to access this URL.",
     analysis |-> "Automatically blocked by SecureScan AI protection system."]

\* x || d for the string-valued keys: undefined, null and "" give d.
StringOr(o, f, d) == IF HasValue(o, f) /\ o[f] # "" THEN o[f] ELSE d

\* analysis.indicators || [], App.tsx:135: undefined and null give [];
\* an array, the empty one included, and a non-empty string are kept.
ArrayOr(o, f) == IF HasValue(o, f) THEN o[f] ELSE <<>>

\* The record built with "safe" as the default level.
newResultDefaultSafe(url, analysis, k, t) ==
    [id |-> [kind |-> "random", n |-> k],
     url |-> url,
     timestamp |-> t,
     riskScore |-> ScoreOrZero(analysis),
     riskLevel |-> StringOr(analysis, "riskLevel", "safe"),
     indicators |-> ArrayOr(analysis, "indicators"),
     recommendation |-> StringOr(analysis, "recommendation", ""),
     analysis |-> StringOr(analysis, "analysis", "")]

\* App.tsx:129-138.  k is the number of the Math.random() call that gives
\* the id (:130): the values of different calls are taken to differ, so the
\* call's number stands for its value.  t is what Date.now() returns (:132).
newResult(url, analysis, k, t) ==
    [id |-> [kind |-> "random", n |-> k],
     url |-> url,
     timestamp |-> t,
     riskScore |-> ScoreOrZero(analysis),
     riskLevel |-> StringOr(analysis, "riskLevel", "suspicious"),
     indicators |-> ArrayOr(analysis, "indicators"),
     recommendation |-> StringOr(analysis, "recommendation", ""),
     analysis |-> StringOr(analysis, "analysis", "")]

\* The slice keeping one entry too many.
recordOffByOne(prev, r) ==
    SubSeq(<<r>> \o prev, 1, Min(Len(prev) + 1, HistoryCap + 1))

\* [newResult, ...prev.history].slice(0, 50), App.tsx:146
record(prev, r) ==
    SubSeq(<<r>> \o prev, 1, Min(Len(prev) + 1, HistoryCap))

\* [...new Set(arr)]: the first occurrence of each element, in order.
RECURSIVE Unique(_)
Unique(arr) ==
    IF arr = <<>> THEN <<>>
    ELSE LET front == Unique(SubSeq(arr, 1, Len(arr) - 1))
             last == arr[Len(arr)]
         IN  IF last \in Range(front) THEN front ELSE Append(front, last)

\* The test that also takes a suspicious result for a high-risk one.
isHighRiskOrSuspicious(result) == result.riskLevel # "safe"

\* newResult.riskLevel === 'high-risk', App.tsx:140
isHighRisk(result) == result.riskLevel = "high-risk"

\* The URL appended whether or not it is there already.
blockAppend(prev, url) == Append(prev, url)

\* The block list holding the newest URL only.
blockReplacing(prev, url) == <<url>>

\* state.blockedUrls when securescan_blocked held a JSON text that is no
\* array, App.tsx:82.  Each value is a sequence no array of URLs equals:
\*   NullArray    null
\*   PlainObject  an object, a number or a boolean: a value without
\*                includes that cannot be spread
\*   Text(s)      the string s
NullArray == <<"null">>
PlainObject == <<"{}">>
Text(s) == <<"string", s>>

IsText(b) == Len(b) = 2 /\ b[1] = "string"

\* b.includes is not a function, and [...b] throws.
NoArray(b) == b \in {NullArray, PlainObject}

\* The characters of the strings of the model.
Chars(s) ==
    CASE s = "http://a.example" ->
           <<"h", "t", "t", "p", ":", "/", "/", "a", ".", "e", "x", "a", "m",
             "p", "l", "e">>
      [] s = "http://b.example" ->
           <<"h", "t", "t", "p", ":", "/", "/", "b", ".", "e", "x", "a", "m",
             "p", "l", "e">>
      [] s = "" -> <<>>

\* String.prototype.includes on the strings of the model, none of which is
\* a proper part of another: s contains the empty string and itself.
Substring(u, s) == u = "" \/ u = s

\* [...prev.blockedUrls]: the elements of an array, the characters of a
\* string.
Spread(b) == IF IsText(b) THEN Chars(b[2]) ELSE b

\* [...new Set([...prev.blockedUrls, url])], App.tsx:147
block(prev, url) == Unique(Append(Spread(prev), url))

\* state.blockedUrls.includes(url), App.tsx:104, for an array or a string.
includes(arr, url) ==
    IF IsText(arr) THEN Substring(url, arr[2]) ELSE url \in Range(arr)

\* state.history when securescan_history held a number, a boolean or an
\* object without a length that is greater than 0, App.tsx:81: nothing is
\* listed for it (state.history.length > 0 is false, :267) and it cannot be
\* spread.  The sequence stands for it; no array of ScanResults equals it.
PlainHistory == <<[NoResult EXCEPT !.id = [kind |-> "{}", n |-> 0]]>>

\* The ScanResults the home screen and the history screen can list,
\* App.tsx:267-288 and :493-500.
Items(h) == IF h = PlainHistory THEN <<>> ELSE h

-----------------------------------------------------------------------------
(* Persistence, src/src/App.tsx:75-100.                                    *)
(*                                                                         *)
(* The value of a key of localStorage is a text with a tag telling what    *)
(* getItem and JSON.parse make of it:                                      *)
(*   absent   getItem returns null                                         *)
(*   invalid  JSON.parse throws                                            *)
(*   null     JSON.parse returns null                                      *)
(*   other    JSON.parse returns a number, a boolean or an object; for    *)
(*            securescan_history an object whose length, if it has one,   *)
(*            is not greater than 0                                       *)
(*   sized    JSON.parse returns an object whose length is greater than   *)
(*            0, as {"length": 1} (drawn for securescan_history only)     *)
(*   string   JSON.parse returns a string: arr holds it as its one element *)
(*            for securescan_blocked; for securescan_history arr is empty  *)
(*            and the string is some non-empty one                         *)
(*   array    JSON.parse returns the array arr                             *)
(* getThrows: getItem throws (storage is disabled).                        *)
(* quota: the number of setItem calls the store still takes before it      *)
(* throws on every further one (the storage is full, or is disabled when   *)
(* the number is 0); Unlimited when it takes them all.                     *)

SAbsent == [tag |-> "absent", arr |-> <<>>]
SInvalid == [tag |-> "invalid", arr |-> <<>>]
SNull == [tag |-> "null", arr |-> <<>>]
SOther == [tag |-> "other", arr |-> <<>>]
SSized == [tag |-> "sized", arr |-> <<>>]
SString(a) == [tag |-> "string", arr |-> a]

\* JSON.stringify of an array, as setItem stores it.
SArray(a) == [tag |-> "array", arr |-> a]

Unlimited == -1

\* JSON.stringify(state.blockedUrls), App.tsx:99.
StoreText(b) ==
    CASE b = NullArray   -> SNull
      [] b = PlainObject -> SOther
      [] IsText(b)       -> SString(<<b[2]>>)
      [] OTHER           -> SArray(b)

\* JSON.stringify(state.history), App.tsx:98.
StoreHistory(h) == IF h = PlainHistory THEN SOther ELSE SArray(h)

\* A store that works and holds what the persist effect wrote for h and b.
WorkingStore(h, b) ==
    [history |-> StoreHistory(h), blocked |-> StoreText(b),
     getThrows |-> FALSE, quota |-> Unlimited]

\* saved ? JSON.parse(saved) : [], App.tsx:81-82: kind "throws" for the
\* SyntaxError, else what the value is.
LoadKey(text) ==
    CASE text.tag = "absent"  -> [kind |-> "array", arr |-> <<>>]
      [] text.tag = "invalid" -> [kind |-> "throws", arr |-> <<>>]
      [] OTHER                -> [kind |-> text.tag, arr |-> text.arr]

\* The useState initializer, App.tsx:75-92: what history and blockedUrls
\* start as.  Any throw inside the try block empties both.
initialState(ls) ==
    LET h == LoadKey(ls.history)
        b == LoadKey(ls.blocked)
        empty == [kind |-> "array", arr |-> <<>>]
    IN  IF ls.getThrows \/ h.kind = "throws" \/ b.kind = "throws"
        THEN [history |-> empty, blockedUrls |-> empty]               \* :84-91
        ELSE [history |-> h, blockedUrls |-> b]                       \* :79-83

\* The two setItem calls, App.tsx:98-99, as far as the store takes them:
\* when the first throws nothing is written, when the second throws the
\* history is written and the blocked key is left as it was.
setItems(ls, h, b) ==
    IF ls.quota = 0 THEN ls
    ELSE IF ls.quota = 1
    THEN [ls EXCEPT !.history = StoreHistory(h), !.quota = 0]
    ELSE [ls EXCEPT !.history = StoreHistory(h), !.blocked = StoreText(b),
                    !.quota = IF @ = Unlimited THEN @ ELSE @ - 2]

\* One of the two setItem calls throws.
setItemThrows(ls) == ls.quota \in {0, 1}

-----------------------------------------------------------------------------
(* Scanner, src/unnamed/part_001:70-161.                                   *)
(*                                                                         *)
(* mounted the component is in the tree that was committed last            *)
(* error   the component's error state as committed: the error view is     *)
(*         shown and no <video> is rendered, so videoRef.current is null   *)
(* The other fields describe the effect instance that has run and has not  *)
(* been cleaned up:                                                        *)
(* phase   what it is waiting for:                                         *)
(*           "none"  there is no such instance                             *)
(*           "gum"   getUserMedia is pending                               *)
(*           "raf"   a requestAnimationFrame(tick) is pending              *)
(*           "rest"  nothing is pending                                    *)
(* stored  animationFrameId holds the id of the pending frame (part_001    *)
(*         :150 stores it, the first request at :110 does not)             *)
(* stream  the effect's `stream` variable holds an open stream             *)
(* snap    state.blockedUrls as the instance's onScan sees it: the         *)
(*         handleScan of the render the effect ran for (kept while a call  *)
(*         of onScan is still possible)                                    *)
(*                                                                         *)
(* handleScan is a new function on every render of AppContent, so the      *)
(* effect (deps [onScan, retryCount]) is cleaned up and run again after    *)
(* every commit of AppContent while the Scanner stays mounted.             *)

NoScanner == [mounted |-> FALSE, error |-> FALSE, phase |-> "none",
              stored |-> FALSE, stream |-> FALSE, snap |-> <<>>]

\* startCamera up to its first await, part_001:81-104, for the effect of
\* Scanner sc whose onScan sees `snap`.  In an insecure context (:85-88) or
\* without navigator.mediaDevices.getUserMedia (:90-93) it returns before
\* getUserMedia is called and nothing is pending.
StartedEffect(sc, snap) ==
    IF camera
    THEN [sc EXCEPT !.phase = "gum", !.stored = FALSE, !.stream = FALSE,
                    !.snap = snap]
    ELSE [sc EXCEPT !.phase = "rest", !.stored = FALSE, !.stream = FALSE,
                    !.snap = <<>>]

\* gum     pending getUserMedia calls of cleaned-up effect instances of
\*         the mounted Scanner, each with the snap of its onScan
\* raf     their pending frames that no cleanup can cancel, likewise
\* dead    pending getUserMedia calls of effect instances of an unmounted
\*         Scanner
\* leaked  a stream was assigned to the `stream` variable of an effect
\*         instance after its cleanup had run: nothing stops its tracks
NoZombies == [gum |-> EmptyBag, raf |-> EmptyBag, dead |-> 0,
              leaked |-> FALSE]

ZombieCount(z) == BagCardinality(z.gum) + BagCardinality(z.raf) + z.dead

\* The effect's cleanup, part_001:155-160: what it leaves pending.  A
\* pending getUserMedia is not cancelled; a pending frame is cancelled only
\* when its id was stored.  A stream the instance holds is stopped.
Leftovers(sc, z) ==
    [z EXCEPT !.gum = IF sc.phase = "gum"
                      THEN @ (+) SetToBag({sc.snap}) ELSE @,
              !.raf = IF sc.phase = "raf" /\ ~sc.stored
                      THEN @ (+) SetToBag({sc.snap}) ELSE @]

\* The Scanner is unmounted: videoRef.current is null from now on for the
\* callbacks left over.  A leftover tick never reaches onScan again (it
\* keeps requesting frames, part_001:150, without any effect on the state);
\* a leftover getUserMedia still resolves or rejects.
Unmounted(z) ==
    [gum |-> EmptyBag, raf |-> EmptyBag,
     dead |-> z.dead + BagCardinality(z.gum), leaked |-> z.leaked]

-----------------------------------------------------------------------------
(* React's scheduling of AppContent and the Scanner, App.tsx:74-100 and    *)
(* part_001:70-161.                                                        *)
(*                                                                         *)
(* A setState call queues its update.  A handler of a click, a key or a    *)
(* submit is followed at once by what React does for it: the passive       *)
(* effects still pending are run, the queue is rendered and committed, and *)
(* the passive effects of that commit are run.  Updates queued by a        *)
(* promise continuation, a load callback or an animation frame are         *)
(* rendered by a later task, and the passive effects of that commit are    *)
(* run by a task later still; other callbacks may run in between, and see  *)
(* the handlers and refs of the last commit.                               *)
(*                                                                         *)
(* An operator of this section maps a world, the record of the             *)
(* application's variables, to the world after it.  The field ok is FALSE  *)
(* when a bound of the model is exceeded, the field sync tells that a      *)
(* handler of a click, key or submit has queued an update.                 *)

\* The queue holds nothing: rendering it gives what is committed already.
\* The updates of the queue, applied in their order to the committed state,
\* are kept as their result: every update in App.tsx and part_001 is a
\* function of the queued state before it, or a constant.
\*   app      AppContent has an update queued: it will render again
\*   persist  history and blockedUrls are new arrays, :146-147
\*   retry    retryCount is changed, part_001:190
\*   throws   an update function of the queue throws when React calls it
Clean(w) ==
    [app |-> FALSE, persist |-> FALSE, retry |-> FALSE, throws |-> FALSE,
     screen |-> w.screen, currentResult |-> w.currentResult,
     history |-> w.history, blockedUrls |-> w.blockedUrls,
     isAnalyzing |-> w.isAnalyzing, showAlert |-> w.showAlert,
     error |-> w.scanner.error]

World ==
    [screen |-> screen, currentResult |-> currentResult,
     history |-> history, blockedUrls |-> blockedUrls,
     isAnalyzing |-> isAnalyzing, showAlert |-> showAlert,
     queued |-> queued, now |-> now, random |-> random,
     inflight |-> inflight,
     uploads |-> uploads, scanner |-> scanner, zombies |-> zombies,
     passive |-> passive, localStorage |-> localStorage,
     hasError |-> hasError, ok |-> TRUE, sync |-> FALSE]

\* The ErrorBoundary caught an error thrown while React rendered in its
\* render task (getDerivedStateFromError, App.tsx:32-34): the fallback is
\* committed in place of AppContent and the Scanner is unmounted with it,
\* its refs cleared; what was queued for them is dropped.  The passive
\* effects of the components removed are left pending: the persist effect
\* has no cleanup, the cleanup of the Scanner's effect (part_001:155-160)
\* runs in React's passive-effects task, and until then the callbacks of
\* that effect instance can still run.
Caught(w) ==
    LET sc == w.scanner
        w1 == [w EXCEPT !.hasError = TRUE,
                        !.scanner = IF sc.mounted
                                    THEN [sc EXCEPT !.mounted = FALSE,
                                                    !.error = FALSE]
                                    ELSE sc,
                        !.zombies = IF sc.mounted THEN Unmounted(@) ELSE @,
                        !.passive = {"persist"}
                                    \cup (IF sc.mounted THEN {"scanner"}
                                          ELSE {})]
    IN  [w1 EXCEPT !.queued = Clean(w1)]

\* The ErrorBoundary caught an error thrown in a render React made for a
\* click, a key or a submit, in the first render, or in a passive effect
\* (getDerivedStateFromError, App.tsx:32-34): its fallback replaces
\* AppContent, the Scanner is unmounted with it and its effect is cleaned
\* up at once; what was queued for them is dropped.
Crash(w) ==
    LET w1 == [w EXCEPT !.hasError = TRUE,
                        !.scanner = NoScanner,
                        !.zombies = Unmounted(Leftovers(w.scanner, @)),
                        !.passive = {}]
    IN  [w1 EXCEPT !.queued = Clean(w1)]

\* The body of the persist effect, App.tsx:98-99, on world w.  A throw of
\* setItem inside the effect is caught by the ErrorBoundary
\* (getDerivedStateFromError, :32-34): see Crash.  What was written before
\* the throw stays written.
persist(w) ==
    LET w1 == [w EXCEPT !.localStorage = setItems(@, w.history, w.blockedUrls)]
    IN  IF setItemThrows(w.localStorage) THEN Crash(w1) ELSE w1

\* Rendering the queue throws: an update function of the queue throws; the
\* result screen calls result.indicators.map (App.tsx:386) on a value
\* without map; the history screen calls state.history.map (:493) on a
\* value without map.
RenderThrows(q) ==
    \/ q.throws
    \/ q.screen = "result" /\ q.currentResult.indicators = NotAnArray
    \/ q.screen = "history" /\ q.history = PlainHistory

\* React renders the queue and commits, App.tsx:510-525.  The Scanner is
\* mounted, kept or unmounted with screen === 'scanning' (:516); the refs
\* are set or cleared in the commit, the effects are left pending:
\*   "persist"  history or blockedUrls is a new array (deps at :100)
\*   "scanner"  the Scanner's effect has to be cleaned up or run
\* A throw while rendering is caught by the ErrorBoundary: see Crash for a
\* render made for a click, a key or a submit, and Caught for one made in
\* the render task.
Render(w) ==
    LET q == w.queued
        sc == w.scanner
        scanning == q.screen = "scanning"
        sc1 == IF sc.mounted /\ scanning THEN [sc EXCEPT !.error = q.error]
               ELSE IF scanning THEN [NoScanner EXCEPT !.mounted = TRUE]
               ELSE IF sc.mounted
                    THEN [sc EXCEPT !.mounted = FALSE, !.error = FALSE]
               ELSE sc
        z1 == IF sc.mounted /\ ~scanning THEN Unmounted(w.zombies)
              ELSE w.zombies
        eff == (IF q.persist THEN {"persist"} ELSE {})
               \cup (IF \/ sc.mounted /\ scanning /\ (q.app \/ q.retry)
                        \/ ~sc.mounted /\ scanning
                        \/ sc.mounted /\ ~scanning
                     THEN {"scanner"} ELSE {})
        w1 == [w EXCEPT !.screen = q.screen,
                        !.currentResult = q.currentResult,
                        !.history = q.history,
                        !.blockedUrls = q.blockedUrls,
                        !.isAnalyzing = q.isAnalyzing,
                        !.showAlert = q.showAlert,
                        !.scanner = sc1,
                        !.zombies = z1,
                        !.passive = eff]
    IN  IF RenderThrows(q) THEN (IF w.sync THEN Crash(w) ELSE Caught(w))
        ELSE [w1 EXCEPT !.queued = Clean(w1)]

\* React runs the pending passive effects: the cleanups first (part_001
\* :155-160), then the effects, the Scanner's (part_001:77-153, which
\* queues setError, :82-92) before the persist effect of its parent
\* (App.tsx:97-100).  Of components the ErrorBoundary's fallback has
\* replaced only the cleanups run.
Effects(w) ==
    LET sc == w.scanner
        scan == "scanner" \in w.passive
        z1 == IF ~scan THEN w.zombies
              ELSE IF sc.mounted THEN Leftovers(sc, w.zombies)
              ELSE Unmounted(Leftovers(sc, w.zombies))
        sc1 == IF ~scan THEN sc
               ELSE IF sc.mounted THEN StartedEffect(sc, w.blockedUrls)
               ELSE NoScanner
        q1 == IF scan /\ sc.mounted
              THEN [w.queued EXCEPT !.error = ~camera]
              ELSE w.queued
        w1 == [w EXCEPT !.zombies = z1, !.scanner = sc1, !.queued = q1,
                        !.passive = {},
                        !.ok = @ /\ ZombieCount(z1) <= MaxZombies]
    IN  IF "persist" \in w.passive /\ ~w.hasError THEN persist(w1) ELSE w1

\* What React does after a handler of a click, a key or a submit has run
\* in world w.  When the handler has queued nothing, nothing.
Discrete(w) ==
    IF ~w.sync THEN w
    ELSE LET w1 == IF w.passive # {} THEN Effects(w) ELSE w
         IN  IF w1.hasError THEN w1
             ELSE LET w2 == Render(w1)
                  IN  IF w2.passive # {} THEN Effects(w2) ELSE w2

\* A handler called for a click, a key or a submit.
Sync(w) == [w EXCEPT !.sync = TRUE]

\* The variables of the application become world w.  An update of a
\* component that is unmounted is dropped.
Becomes(w) ==
    /\ w.ok
    /\ screen' = w.screen
    /\ currentResult' = w.currentResult
    /\ history' = w.history
    /\ blockedUrls' = w.blockedUrls
    /\ isAnalyzing' = w.isAnalyzing
    /\ showAlert' = w.showAlert
    /\ queued' = IF w.hasError THEN Clean(w) ELSE w.queued
    /\ now' = w.now
    /\ random' = w.random
    /\ inflight' = w.inflight
    /\ uploads' = w.uploads
    /\ scanner' = w.scanner
    /\ zombies' = w.zombies
    /\ passive' = w.passive
    /\ localStorage' = w.localStorage
    /\ hasError' = w.hasError
    /\ UNCHANGED <<api, cls, camera, regular>>

\* Something is queued that changes what is rendered.
Dirty ==
    queued.app \/ queued.retry \/ queued.error # scanner.error

\* React's render task: the queue is rendered and committed.  React runs
\* the passive effects still pending before it renders.
RenderTask ==
    /\ ~hasError
    /\ passive = {}
    /\ Dirty
    /\ Becomes(Render(World))

\* React's passive-effects task.
PassiveEffects ==
    /\ passive # {}
    /\ Becomes(Effects(World))

\* The ErrorBoundary's fallback (App.tsx:41-60) replaces the page.  The
\* overlays (:529, :583) are drawn over the page and remove nothing from it:
\* the buttons, the form and the file input under them stay rendered with
\* their handlers, and act when activated.
PageReachable == ~hasError

-----------------------------------------------------------------------------
(* The scan pipeline, src/src/App.tsx:102-154.                             *)

\* An analyzeUrl call whose fetch has not settled yet.
Call(url) == [url |-> url]

Pending == BagCardinality(inflight)

\* What Date.now() may return in a task when `last` is what it returned
\* last: a later value, or (the task follows within the clock's
\* resolution) the same value again.  A value above MaxClock is not
\* explored.
DateNow(last) == IF regular THEN {last + 1} ELSE {last, last + 1}

\* What Date.now() may return when it returned t before in the same task.
DateNowAgain(t) == IF regular THEN {t} ELSE {t, t + 1}

\* handleScan up to its await, called in world w.  `snap` is
\* state.blockedUrls as the closure that is called sees it; t1 and t2 are
\* what Date.now() returns at :106 and :108 when they are reached.  The
\* setState calls queue their updates; fetch is called at once.  After a
\* throw React has nothing to render for the event.
handleScan(w, url, snap, t1, t2) ==
    IF NoArray(snap)                       \* snap.includes throws, :104:
    THEN [w EXCEPT !.sync = FALSE]         \* nothing is queued
    ELSE IF includes(snap, url)
    THEN [w EXCEPT                                            \* :104-122
            !.ok = @ /\ t2 <= MaxClock,
            !.now = t2,
            !.queued = [@ EXCEPT
                           !.app = TRUE,
                           !.screen = "result",
                           !.currentResult = blockedResult(url, t1, t2),
                           !.showAlert = TRUE]]
    ELSE [w EXCEPT                                            \* :124-127
            !.ok = @ /\ BagCardinality(w.inflight) < MaxInFlight,
            !.inflight = @ (+) SetToBag({Call(url)}),
            !.queued = [@ EXCEPT
                           !.app = TRUE,
                           !.screen = "scanning",
                           !.isAnalyzing = TRUE]]

\* How the exchange of a call for `url` may end: fetch rejects, or the
\* service answers the request with what the route builds from the AI
\* backend's behaviour.  The route keeps no state between requests.
SessionExchanges(url) ==
    {FetchThrows}
    \cup {LET resp == analyzeRoute(RequestBody(url), ai)
          IN  FetchHttp(resp.status, resp.text) : ai \in SessionAiOutcomes}

\* The exchange of call c ends as `ex` and handleScan goes on after its
\* await, App.tsx:127-153: a promise continuation, whose setState calls
\* queue their updates.  The update function of :142-148 spreads
\* prev.history, and prev.blockedUrls for a high-risk result: it throws
\* when React calls it on a value that cannot be spread.
ScanCompletes(c, ex) ==
    /\ analyzeUrl(ex).kind = "object"
    /\ \E t \in DateNow(now) :
         LET analysis == analyzeUrl(ex).obj
             result == newResult(c.url, analysis, random + 1, t)
             high == isHighRisk(result)                    \* :140
             throws == \/ queued.history = PlainHistory
                       \/ high /\ NoArray(queued.blockedUrls)
         IN  Becomes([World EXCEPT
                !.ok = random < MaxRandom /\ t <= MaxClock,
                !.random = @ + 1,
                !.now = t,
                !.inflight = @ (-) SetToBag({c}),
                !.queued = [@ EXCEPT
                    !.app = TRUE,
                    !.persist = TRUE,
                    !.throws = (@ \/ throws),
                    !.screen = "result",
                    !.currentResult = result,
                    !.history = IF throws THEN @ ELSE record(@, result),
                    !.blockedUrls = IF high /\ ~throws THEN block(@, c.url)
                                    ELSE @,
                    !.isAnalyzing = FALSE,
                    !.showAlert = (@ \/ high)]])

\* analyzeUrl resolved with null (an ok response whose body is the JSON
\* text null).  The object literal of App.tsx:129-138 is evaluated in its
\* order: Math.random() (:130) and Date.now() (:132) are called, then
\* analysis.riskScore (:133) throws a TypeError; the promise handleScan
\* returned is rejected and no setState call is reached.
ScanThrows(c, ex) ==
    /\ analyzeUrl(ex).kind = "null"
    /\ \E t \in DateNow(now) :
         Becomes([World EXCEPT
            !.ok = random < MaxRandom /\ t <= MaxClock,
            !.random = @ + 1,
            !.now = t,
            !.inflight = @ (-) SetToBag({c})])

\* The keys of object o that are in S, and no others.
Restrict(o, S) ==
    [f \in DOMAIN o |->
        IF f \in {"present", "nulls"} THEN o[f] \cap S
        ELSE IF f \in S THEN o[f] ELSE EmptyObj[f]]

ResultFields == {"riskScore", "riskLevel", "indicators", "recommendation",
                 "analysis"}

\* A body whose keys hold 0, "" and []: riskScore: 0, riskLevel: "",
\* indicators: [], recommendation: "", analysis: "".
FalsyObject == [EmptyObj EXCEPT !.present = ResultFields]

\* A body whose five keys all hold null.
NullObject ==
    [EmptyObj EXCEPT !.present = ResultFields, !.nulls = ResultFields]

\* JSON objects an ok response is taken to carry: assessments with any
\* subset of the five keys, and bodies that are not of the type
\* ScanResult: the five keys holding 0, "" and [], the five keys holding
\* null, an assessment whose recommendation is null, and one whose
\* indicators are a string.  (A body that is a number, a string, a boolean
\* or an array is read as an object without the five keys.)  Other
\* ill-typed values, such as a string for riskScore, are not drawn.
ResponseObjects ==
    {Restrict(SuccessBody(FullObject(n)), S) :
        n \in {10, 50, 85}, S \in SUBSET ResultFields}
    \cup {FalsyObject, NullObject,
          WithNull(SuccessBody(FullObject(85)), "recommendation"),
          [SuccessBody(FullObject(85)) EXCEPT !.indicators = NotAnArray]}

\* The ways the exchange of one call is taken to end when anybody may
\* answer it: fetch rejects, an error status, an ok status with a body
\* that is empty, is no JSON, is null or is one of ResponseObjects.
AnyExchanges ==
    {FetchThrows,
     FetchHttp(400, Stringify(UrlRequired)),
     FetchHttp(500, Stringify(ServerDegraded)),
     FetchHttp(500, TInvalid),
     FetchHttp(200, TEmpty), FetchHttp(200, TInvalid), FetchHttp(200, TNull)}
    \cup {FetchHttp(200, TObject(o)) : o \in ResponseObjects}

-----------------------------------------------------------------------------
(* What starts the pipeline.                                               *)

\* The form of the home screen, App.tsx:242-248.
HomeSubmit(url) ==
    /\ screen = "home"
    /\ PageReachable
    /\ \E t1 \in DateNow(now) : \E t2 \in DateNowAgain(t1) :
         Becomes(Discrete(handleScan(Sync(World), url, blockedUrls, t1, t2)))

\* The form of the Scanner's error view, part_001:226-232: onScan is the
\* handleScan of the last commit.
ScannerSubmit(url) ==
    /\ scanner.mounted
    /\ scanner.error
    /\ PageReachable
    /\ \E t1 \in DateNow(now) : \E t2 \in DateNowAgain(t1) :
         Becomes(Discrete(handleScan(Sync(World), url, blockedUrls, t1, t2)))

\* handleImageUpload, App.tsx:160-188: a file is chosen on the home screen
\* (:225-230) or in the Scanner's error view (part_001:209-214).  The load
\* callbacks keep the handleScan of the render that was current.
NoCode == [found |-> FALSE, data |-> ""]
Code(url) == [found |-> TRUE, data |-> url]

handleImageUpload(code) ==
    /\ screen = "home" \/ (scanner.mounted /\ scanner.error)
    /\ PageReachable
    /\ BagCardinality(uploads) < MaxUploads
    /\ Becomes([World EXCEPT
          !.uploads = @ (+) SetToBag({[code |-> code,
                                       snap |-> blockedUrls]})])

\* img.onload, App.tsx:167-184, with a code in the image.
UploadDecoded(u) ==
    /\ u.code.found
    /\ \E t1 \in DateNow(now) : \E t2 \in DateNowAgain(t1) :
         Becomes(handleScan([World EXCEPT !.uploads = @ (-) SetToBag({u})],
                            u.code.data, u.snap, t1, t2))

\* img.onload with no code in the image: alert(), no state action.
UploadEmpty(u) ==
    /\ ~u.code.found
    /\ Becomes([World EXCEPT !.uploads = @ (-) SetToBag({u})])

\* getUserMedia resolves for the effect instance that has not been cleaned
\* up, part_001:98-111.  Without a <video> (the error view is shown, or the
\* Scanner is unmounted and its cleanup has not run yet) no frame is
\* requested.
GumResolves ==
    /\ scanner.phase = "gum"
    /\ Becomes([World EXCEPT
          !.scanner = IF scanner.mounted /\ ~scanner.error
                      THEN [@ EXCEPT !.stream = TRUE, !.phase = "raf"]
                      ELSE [@ EXCEPT !.stream = TRUE, !.phase = "rest",
                                     !.snap = <<>>]])

\* Both getUserMedia attempts reject: setError, part_001:112-126, which is
\* dropped when the Scanner is unmounted.
GumRejects ==
    /\ scanner.phase = "gum"
    /\ Becomes([World EXCEPT
          !.scanner = [@ EXCEPT !.phase = "rest", !.snap = <<>>],
          !.queued = IF scanner.mounted THEN [@ EXCEPT !.error = TRUE]
                     ELSE @])

\* tick finds no code (or no video) and requests the next frame, :150.
TickNoCode ==
    /\ scanner.phase = "raf"
    /\ ~scanner.stored
    /\ Becomes([World EXCEPT !.scanner = [@ EXCEPT !.stored = TRUE]])

\* tick decodes a code and hands it to onScan, part_001:129-146.
TickCode(url) ==
    /\ scanner.phase = "raf"
    /\ scanner.mounted
    /\ ~scanner.error
    /\ \E t1 \in DateNow(now) : \E t2 \in DateNowAgain(t1) :
         Becomes(handleScan(
            [World EXCEPT !.scanner = [@ EXCEPT !.phase = "rest",
                                                !.stored = FALSE,
                                                !.snap = <<>>]],
            url, scanner.snap, t1, t2))

\* getUserMedia of a cleaned-up effect instance resolves: its startCamera
\* goes on, part_001:98-111, keeps the stream in a variable whose cleanup
\* has run already, and requests a frame nobody can cancel.
ZombieGumResolves(s) ==
    /\ BagIn(s, zombies.gum)
    /\ Becomes([World EXCEPT
          !.zombies = [@ EXCEPT
             !.gum = @ (-) SetToBag({s}),
             !.raf = IF scanner.error THEN @ ELSE @ (+) SetToBag({s}),
             !.leaked = TRUE]])

\* getUserMedia of a cleaned-up effect instance rejects: setError.
ZombieGumRejects(s) ==
    /\ BagIn(s, zombies.gum)
    /\ Becomes([World EXCEPT
          !.zombies = [@ EXCEPT !.gum = @ (-) SetToBag({s})],
          !.queued = [@ EXCEPT !.error = TRUE]])

\* The tick of a cleaned-up effect instance decodes a code from the shared
\* <video>.  Its onScan is the handleScan of the render its effect ran for.
ZombieTickCode(s, url) ==
    /\ BagIn(s, zombies.raf)
    /\ ~scanner.error
    /\ \E t1 \in DateNow(now) : \E t2 \in DateNowAgain(t1) :
         Becomes(handleScan(
            [World EXCEPT !.zombies = [@ EXCEPT !.raf = @ (-) SetToBag({s})]],
            url, s, t1, t2))

\* getUserMedia of an effect instance of an unmounted Scanner resolves
\* after its cleanup: the stream is assigned (part_001:98-104),
\* videoRef.current is null (:106) and startCamera ends.
DeadGumResolves ==
    /\ zombies.dead > 0
    /\ Becomes([World EXCEPT
          !.zombies = [@ EXCEPT !.dead = @ - 1, !.leaked = TRUE]])

\* getUserMedia of an effect instance of an unmounted Scanner rejects:
\* setError on a component that is gone changes nothing.
DeadGumRejects ==
    /\ zombies.dead > 0
    /\ Becomes([World EXCEPT !.zombies = [@ EXCEPT !.dead = @ - 1]])

-----------------------------------------------------------------------------
(* Navigation, src/src/App.tsx:156-158 and the buttons that call it.       *)

\* navigateTo taking the result it is given, an absent one included.
navigateToClearing(w, newScreen, result) ==
    [w EXCEPT !.queued = [@ EXCEPT !.app = TRUE,
                                   !.screen = newScreen,
                                   !.currentResult = result]]

\* setState(prev => ({ ...prev, screen, currentResult: result || prev... }))
navigateTo(w, newScreen, result) ==
    [w EXCEPT !.queued = [@ EXCEPT !.app = TRUE,
                                   !.screen = newScreen,
                                   !.currentResult = IF result # NoResult
                                                     THEN result ELSE @]]

\* "Scan QR Code", App.tsx:214
StartScan ==
    /\ screen = "home"
    /\ PageReachable
    /\ Becomes(Discrete(navigateTo(Sync(World), "scanning", NoResult)))

\* "View All", App.tsx:267-279
ViewAll ==
    /\ screen = "home"
    /\ Len(Items(history)) > 0
    /\ PageReachable
    /\ Becomes(Discrete(navigateTo(Sync(World), "history", NoResult)))

\* Every HistoryItem opening the newest record.
SelectHistoryFirst(i) ==
    /\ i \in 1..Len(Items(history))
    /\ \/ screen = "home" /\ i <= 3
       \/ screen = "history"
    /\ PageReachable
    /\ Becomes(Discrete(navigateTo(Sync(World), "result", history[1])))

\* A HistoryItem is clicked: the first three on the home screen (:282-288),
\* any on the history screen (:493-499).
SelectHistory(i) ==
    /\ i \in 1..Len(Items(history))
    /\ \/ screen = "home" /\ i <= 3
       \/ screen = "history"
    /\ PageReachable
    /\ Becomes(Discrete(navigateTo(Sync(World), "result", history[i])))

\* The back arrows (:314, :484) and "Report & Close" (:455).
Back ==
    /\ screen \in {"result", "history"}
    /\ PageReachable
    /\ Becomes(Discrete(navigateTo(Sync(World), "home", NoResult)))

\* "Rescan", App.tsx:464
Rescan ==
    /\ screen = "result"
    /\ PageReachable
    /\ Becomes(Discrete(navigateTo(Sync(World), "scanning", NoResult)))

\* The cancel button leading to the history screen.
CancelToHistory ==
    /\ scanner.mounted
    /\ PageReachable
    /\ Becomes(Discrete(navigateTo(Sync(World), "history", NoResult)))

\* The Scanner's onCancel, App.tsx:519, part_001:251 and :344.
Cancel ==
    /\ scanner.mounted
    /\ PageReachable
    /\ Becomes(Discrete(navigateTo(Sync(World), "home", NoResult)))

\* "Try Again", part_001:190: retryCount changes and the effect runs again.
Retry ==
    /\ scanner.mounted
    /\ scanner.error
    /\ PageReachable
    /\ Becomes(Discrete([Sync(World) EXCEPT !.queued.retry = TRUE]))

\* "View Details", App.tsx:561
DismissAlert ==
    /\ showAlert
    /\ PageReachable
    /\ Becomes(Discrete([Sync(World) EXCEPT !.queued.app = TRUE,
                                            !.queued.showAlert = FALSE]))

\* "Back to Safety", App.tsx:567-570
BackToSafety ==
    /\ showAlert
    /\ PageReachable
    /\ Becomes(Discrete([navigateTo(Sync(World), "home", NoResult)
                            EXCEPT !.queued.showAlert = FALSE]))

-----------------------------------------------------------------------------
(* Startup, src/src/App.tsx:66-100.                                        *)

\* state.blockedUrls as the initializer leaves it: whatever was parsed.
Loaded(v) ==
    CASE v.kind = "null"   -> NullArray
      [] v.kind = "other"  -> PlainObject
      [] v.kind = "string" -> Text(v.arr[1])
      [] OTHER             -> v.arr

\* state.history as the initializer leaves it.  (For null, for a string
\* and for an object with a length greater than 0 the render throws, see
\* Mount: the value is never used.)
LoadedHistory(v) == IF v.kind = "other" THEN PlainHistory ELSE v.arr

\* <App/> is mounted in world w: the useState initializer runs and
\* AppContent renders the home screen; its persist effect is pending.  A
\* history that is null makes state.history.length (:267) throw while
\* rendering; one that is a non-empty string makes
\* state.history.slice(0, 3).map (:282) throw, and one that is an object
\* with a length greater than 0 makes state.history.slice (:282) throw; the
\* ErrorBoundary shows its fallback, AppContent is never committed and no
\* effect runs.  For any other history that is a number, a boolean or an
\* object state.history.length > 0 is false: nothing is listed.
\* blockedUrls is not read by the render.
Mount(w) ==
    LET st == initialState(w.localStorage)
        w1 == [w EXCEPT !.screen = "home",
                        !.history = LoadedHistory(st.history),
                        !.blockedUrls = Loaded(st.blockedUrls),
                        !.hasError = FALSE,
                        !.passive = {"persist"}]
        w2 == [w1 EXCEPT !.queued = Clean(w1)]
    IN  IF st.history.kind \in {"null", "string", "sized"} THEN Crash(w2)
        ELSE w2

AppStart ==
    /\ screen = "none"
    /\ ~hasError
    /\ Becomes(Mount(World))

\* The application is started and the home form is used.
NextStartup ==
    \/ AppStart
    \/ PassiveEffects
    \/ RenderTask
    \/ \E u \in Urls : HomeSubmit(u)
    \/ \E c \in BagToSet(inflight) :
         \E ex \in SessionExchanges(c.url) : ScanCompletes(c, ex)

\* The page is loaded again (the reload button of the ErrorBoundary, :53,
\* or the browser's): every callback, stream and piece of component state
\* is gone, whatever is queued or pending included; the clock goes on, and
\* <App/> is mounted as in AppStart from what localStorage holds.
Restart ==
    /\ screen # "none"
    /\ Becomes(Mount([World EXCEPT !.currentResult = NoResult,
                                   !.isAnalyzing = FALSE,
                                   !.showAlert = FALSE,
                                   !.inflight = EmptyBag,
                                   !.uploads = EmptyBag,
                                   !.scanner = NoScanner,
                                   !.zombies = NoZombies]))

-----------------------------------------------------------------------------
(* Specifications.                                                         *)

\* AppContent after construction with the given stored history, :75-100:
\* mounted, and its first persist effect has run on a store that works.  The
\* browser has a camera API or has none.  `clocks` tells what the session's
\* clock may be: regular (TRUE), not regular (FALSE); `quotas` how many more
\* writes the store may take.
InitApp(stored, clocks, quotas) ==
    /\ screen = "home"
    /\ currentResult = NoResult
    /\ history = stored
    /\ blockedUrls = <<>>
    /\ isAnalyzing = FALSE
    /\ showAlert = FALSE
    /\ now = 0
    /\ regular \in clocks
    /\ random = 0
    /\ inflight = EmptyBag
    /\ uploads = EmptyBag
    /\ scanner = NoScanner
    /\ zombies = NoZombies
    /\ \E q \in quotas :
         localStorage = [WorkingStore(stored, <<>>) EXCEPT !.quota = q]
    /\ hasError = FALSE
    /\ camera \in BOOLEAN
    /\ passive = {}
    /\ queued = Clean([screen |-> "home", currentResult |-> NoResult,
                       history |-> stored, blockedUrls |-> <<>>,
                       isAnalyzing |-> FALSE, showAlert |-> FALSE,
                       scanner |-> NoScanner])

\* The sessions with the camera, with uploads and with reloads are
\* explored with a regular clock; the values read from the clock are kept
\* in the records and shown, and steer no step.
Init ==
    /\ InitApp(<<>>, {TRUE}, {Unlimited})
    /\ api = ApiIdle
    /\ cls = ClsIdle

\* A session driven from the forms, the camera and the buttons.
Next ==
    \/ \E u \in Urls : HomeSubmit(u)
    \/ \E u \in Urls : ScannerSubmit(u)
    \/ \E c \in BagToSet(inflight) :
         \E ex \in SessionExchanges(c.url) : ScanCompletes(c, ex)
    \/ RenderTask
    \/ PassiveEffects
    \/ GumResolves
    \/ GumRejects
    \/ TickNoCode
    \/ \E d \in QrPayloads : TickCode(d)
    \/ \E s \in BagToSet(zombies.gum) : ZombieGumResolves(s)
    \/ \E s \in BagToSet(zombies.gum) : ZombieGumRejects(s)
    \/ \E s \in BagToSet(zombies.raf) :
         \E d \in QrPayloads : ZombieTickCode(s, d)
    \/ DeadGumResolves
    \/ DeadGumRejects
    \/ StartScan
    \/ ViewAll
    \/ \E i \in 1..MaxPick : SelectHistory(i)
    \/ Back
    \/ Rescan
    \/ Cancel
    \/ Retry
    \/ DismissAlert
    \/ BackToSafety

Spec == Init /\ [][Next]_vars

\* A session in a browser without a camera API, driven from the forms,
\* the image uploads and the buttons: the Scanner shows its error view.
InitUpload ==
    /\ Init
    /\ ~camera

NextUpload ==
    \/ \E u \in Urls : HomeSubmit(u)
    \/ \E u \in Urls : ScannerSubmit(u)
    \/ \E code \in {NoCode} \cup {Code(d) : d \in QrPayloads} :
         handleImageUpload(code)
    \/ \E u \in BagToSet(uploads) : UploadDecoded(u)
    \/ \E u \in BagToSet(uploads) : UploadEmpty(u)
    \/ \E c \in BagToSet(inflight) :
         \E ex \in SessionExchanges(c.url) : ScanCompletes(c, ex)
    \/ RenderTask
    \/ PassiveEffects
    \/ StartScan
    \/ ViewAll
    \/ \E i \in 1..MaxPick : SelectHistory(i)
    \/ Back
    \/ Rescan
    \/ Cancel
    \/ Retry
    \/ DismissAlert
    \/ BackToSafety

SpecUpload == InitUpload /\ [][NextUpload]_vars

\* A session that starts with a history written by earlier sessions.
StoredResult(i) ==
    newResult("http://a.example", SuccessBody(FullObject(10)), -i, -i)

StoredHistory(n) == [i \in 1..n |-> StoredResult(i)]

InitStored ==
    /\ \E n \in {HistoryCap - 1, HistoryCap} :
         InitApp(StoredHistory(n), BOOLEAN, {Unlimited})
    /\ api = ApiIdle
    /\ cls = ClsIdle

\* Such a session driven from the home form and the history list: the
\* camera is not used.
NextStored ==
    \/ \E u \in Urls : HomeSubmit(u)
    \/ \E c \in BagToSet(inflight) :
         \E ex \in SessionExchanges(c.url) : ScanCompletes(c, ex)
    \/ RenderTask
    \/ PassiveEffects
    \/ ViewAll
    \/ \E i \in 1..MaxPick : SelectHistory(i)
    \/ Back
    \/ DismissAlert
    \/ BackToSafety

SpecStored == InitStored /\ [][NextStored]_vars

InitApi ==
    /\ InitApp(<<>>, {TRUE}, {Unlimited})
    /\ \E r \in RequestBodies : api = [ApiIdle EXCEPT !.pc = "request", !.req = r]
    /\ cls = ClsIdle

SpecApi == InitApi /\ [][NextApi]_vars

InitClassify ==
    /\ InitApp(<<>>, {TRUE}, {Unlimited})
    /\ api = ApiIdle
    /\ \E n \in (-MaxScore)..MaxScore :
         cls = [ClsIdle EXCEPT !.pc = "input", !.score = n]

SpecClassify == InitClassify /\ [][NextClassify]_vars

\* What the two keys are taken to hold when the application starts:
\* nothing, text that is no JSON, the JSON text null, the JSON text of an
\* object (or a number, or a boolean), of a string, or of an array of
\* ScanResults or URLs; for the history also the JSON text of an object
\* with a length greater than 0.  The store takes every write, none, or
\* one.  Not drawn: the empty string as the history, and arrays whose
\* elements are no ScanResults or no strings.
StartupStores ==
    [history : {SAbsent, SInvalid, SNull, SOther, SSized, SString(<<>>)}
                  \cup {SArray(StoredHistory(n)) : n \in 0..MaxStored},
     blocked : {SAbsent, SInvalid, SNull, SOther,
                SString(<<"http://a.example">>), SArray(<<>>),
                SArray(<<"http://a.example">>),
                SArray(<<"http://a.example", "http://b.example">>)},
     getThrows : BOOLEAN,
     quota : {Unlimited, 0, 1}]

\* Before <App/> is mounted there is no AppState: screen is "none".
InitStartup ==
    /\ screen = "none"
    /\ currentResult = NoResult
    /\ history = <<>>
    /\ blockedUrls = <<>>
    /\ isAnalyzing = FALSE
    /\ showAlert = FALSE
    /\ now = 0
    /\ regular \in BOOLEAN
    /\ random = 0
    /\ inflight = EmptyBag
    /\ uploads = EmptyBag
    /\ scanner = NoScanner
    /\ zombies = NoZombies
    /\ localStorage \in StartupStores
    /\ hasError = FALSE
    /\ camera \in BOOLEAN
    /\ passive = {}
    /\ queued = Clean([screen |-> "none", currentResult |-> NoResult,
                       history |-> <<>>, blockedUrls |-> <<>>,
                       isAnalyzing |-> FALSE, showAlert |-> FALSE,
                       scanner |-> NoScanner])
    /\ api = ApiIdle
    /\ cls = ClsIdle

SpecStartup == InitStartup /\ [][NextStartup]_vars

\* A session in which the page may be reloaded at any moment, on a store
\* that takes every write or is full after one more.
InitRestart ==
    /\ InitApp(<<>>, {TRUE}, {Unlimited, 1})
    /\ ~camera
    /\ api = ApiIdle
    /\ cls = ClsIdle

NextRestart ==
    \/ NextUpload
    \/ Restart

SpecRestart == InitRestart /\ [][NextRestart]_vars

\* One run of the scan pipeline from the home form, its exchange ending in
\* any way fetch can end.
NextPipeline ==
    \/ \E u \in Urls : HomeSubmit(u)
    \/ \E c \in BagToSet(inflight) :
         \E ex \in AnyExchanges : ScanCompletes(c, ex)
    \/ \E c \in BagToSet(inflight) :
         \E ex \in AnyExchanges : ScanThrows(c, ex)
    \/ RenderTask
    \/ PassiveEffects

InitPipeline ==
    /\ InitApp(<<>>, BOOLEAN, {Unlimited})
    /\ api = ApiIdle
    /\ cls = ClsIdle

SpecPipeline == InitPipeline /\ [][NextPipeline]_vars

\* The continuation of handleScan after its await runs once the promise of
\* analyzeUrl has settled: a step of the pipeline that can be taken is taken.
SpecPipelineLive == SpecPipeline /\ WF_vars(NextPipeline)

-----------------------------------------------------------------------------
(* Properties.                                                             *)
(*                                                                         *)
(* screen, currentResult, history, blockedUrls, isAnalyzing and showAlert  *)
(* are the state React has committed: what is rendered.  `queued` is that  *)
(* state with the updates applied that have been queued and not rendered   *)
(* yet; after a step that ends with a commit the two are equal.  What a    *)
(* handler does to the state is read from queued'.                         *)

\* handleScan is called with payload d, from any of its callers.
ScanInvoked(d) ==
    \/ HomeSubmit(d)
    \/ ScannerSubmit(d)
    \/ TickCode(d)
    \/ \E s \in BagToSet(zombies.raf) : ZombieTickCode(s, d)
    \/ \E u \in BagToSet(uploads) : u.code.data = d /\ UploadDecoded(u)

\* C1: whenever handleScan is invoked on a URL that is in blockedUrls at
\* that moment, from any trigger, no assessment call is issued,
\* currentResult becomes the 100 / high-risk record for the URL, history
\* and blockedUrls stay as they are, the screen is result and the alert is
\* raised.
C1_BlockedUrlShortCircuits ==
    [][\A d \in QrPayloads :
         (ScanInvoked(d) /\ includes(blockedUrls, d))
            => /\ inflight' = inflight
               /\ queued'.currentResult.url = d
               /\ queued'.currentResult.riskScore = 100
               /\ queued'.currentResult.riskLevel = "high-risk"
               /\ queued'.history = queued.history
               /\ queued'.blockedUrls = queued.blockedUrls
               /\ queued'.screen = "result"
               /\ queued'.showAlert]_vars

\* C2: when a scan of a URL that was not found blocked completes with a
\* high-risk assessment, the state React renders for it (no click, key or
\* submit coming in between) has the URL in blockedUrls, the new record as
\* history[0] and as currentResult, the screen result and the alert raised.
C2_HighRiskIsBlockedAndShown ==
    [][(RenderTask /\ history' # history /\ isHighRisk(history'[1]))
          => /\ includes(blockedUrls', history'[1].url)
             /\ currentResult' = history'[1]
             /\ screen' = "result"
             /\ showAlert']_vars

\* C3: at most one assessment call is in flight at any time.
C3_SingleAssessmentInFlight == Pending <= 1

\* C4: history never has more than 50 entries and is ordered newest first
\* (a record built later stands before one built earlier: id.n numbers the
\* records in the order they were built; their timestamps may be equal);
\* each completed scan puts its record at history[0], keeps the previous
\* entries in their order behind it and, when there were 50, drops exactly
\* the last one; and the history React renders next is that list.
C4_HistoryBoundedNewestFirst ==
    /\ [](/\ Len(history) <= HistoryCap
          /\ \A i \in 1..(Len(history) - 1) :
               history[i].id.n > history[i + 1].id.n)
    /\ [][\A c \in BagToSet(inflight) : \A ex \in SessionExchanges(c.url) :
            ScanCompletes(c, ex)
               => LET old == queued.history
                      new == queued'.history
                  IN  /\ new[1] = queued'.currentResult
                      /\ new[1].url = c.url
                      /\ new[1].timestamp = now'
                      /\ Len(new) = IF Len(old) = HistoryCap
                                    THEN HistoryCap ELSE Len(old) + 1
                      /\ \A i \in 2..Len(new) : new[i] = old[i - 1]]_vars
    /\ [][history' # history => history' = queued.history]_vars

\* Two scans completed within one reading of the clock on top of a stored
\* history: the two oldest stored entries at most are gone, and the list is
\* full.
C4_Witness ==
    /\ Len(history) = HistoryCap
    /\ history[1].id.n = 2
    /\ history[2].id.n = 1
    /\ history[1].timestamp = history[2].timestamp
    /\ history[3] = StoredResult(1)
    /\ history[HistoryCap] = StoredResult(HistoryCap - 2)

\* C5: every ScanResult in history or shown as currentResult, rendered or
\* queued to be, has the riskLevel the classifier gives its riskScore.
C5_LevelAgreesWithScore ==
    \A r \in (Range(history) \cup Range(queued.history)
              \cup {currentResult, queued.currentResult}) \ {NoResult} :
        r.riskLevel = getRiskLevel(r.riskScore)

\* Results of a 400 answer (an empty payload), of a 200 answer built from an
\* empty AI output and of a high-risk 200 answer are in the history.
C5_Witness ==
    /\ currentResult # NoResult
    /\ Len(history) = 2
    /\ \E i, j \in 1..2 :
         /\ history[i].url = "" /\ history[i].riskScore = 50
         /\ history[j].riskLevel \in {"safe", "high-risk"}
         /\ history[j].id.kind = "random"

\* C6: for every integer score both copies of getRiskLevel give the same
\* level: safe iff s < 30, suspicious iff 30 <= s < 70, high-risk iff
\* s >= 70.
C6_ClassifiersAgree ==
    cls.pc = "done" =>
        /\ cls.client = cls.server
        /\ cls.client \in {"safe", "suspicious", "high-risk"}
        /\ (cls.client = "safe") <=> (cls.score < 30)
        /\ (cls.client = "suspicious") <=> (30 <= cls.score /\ cls.score < 70)
        /\ (cls.client = "high-risk") <=> (cls.score >= 70)

C6_Witness ==
    /\ cls.pc = "done"
    /\ cls.score = 30
    /\ cls.client = "suspicious"
    /\ cls.server = "suspicious"

Degraded == [kind |-> "object", obj |-> ClientDegraded]

\* fetch settled in one of the failure cases named by the claim.
TransportThrew == api.ex.kind = "throw"
ErrorStatus == api.ex.kind = "http" /\ ~ResponseOk(api.ex.status)
BodyUnparsable ==
    /\ api.ex.kind = "http"
    /\ ResponseOk(api.ex.status)
    /\ api.ex.text.tag \in {"empty", "invalid"}
BodyLacksFields ==
    /\ api.ex.kind = "http"
    /\ ResponseOk(api.ex.status)
    /\ api.ex.text.tag = "object"
    /\ ~(ResultFields \subseteq api.ex.text.obj.present)

\* C7 as stated, for the exchanges in which the service has done what is
\* asked of it (the request had a url and the AI backend gave output of the
\* required shape, so the route sent a complete 200 body): analyzeUrl
\* returns exactly the degraded-mode record when the transport throws, the
\* status is an error status, or the body that arrives is malformed or
\* empty, a 200 JSON body lacking result fields included.
C7_DegradedOnAnyBadResponse ==
    (api.pc = "done"
        /\ UrlGiven(api.req)
        /\ api.ai.kind = "text"
        /\ api.ai.text.tag = "object"
        /\ {"riskScore", "indicators", "recommendation", "analysis"}
              \subseteq api.ai.text.obj.present
        /\ (TransportThrew \/ ErrorStatus \/ BodyUnparsable \/ BodyLacksFields))
    => api.out = Degraded

\* C7 amended: analyzeUrl returns exactly the degraded-mode record when the
\* transport throws, the status is an error status, or the body does not
\* parse as JSON (malformed or empty); a body of an ok response that parses
\* is returned as it is, whatever it holds: an object lacking result
\* fields, or null.
C7_DegradedOnFailureElseBody ==
    api.pc = "done" =>
        IF TransportThrew \/ ErrorStatus \/ BodyUnparsable
        THEN api.out = Degraded
        ELSE /\ api.out.kind = IF api.ex.text.tag = "null" THEN "null"
                               ELSE "object"
             /\ api.out.obj = api.ex.text.obj

\* An ok response with an unparsable body, and an error status whose body
\* is not the client's record, have both been turned into the record.
C7_Witness ==
    /\ api.pc = "done"
    /\ api.out = Degraded
    /\ \/ BodyUnparsable
       \/ ErrorStatus /\ api.ex.text.tag = "object"

\* C8 as stated: the 500 body of the service equals the client's
\* degraded-mode record field for field.
C8_ServerFallbackEqualsClientFallback ==
    (api.pc = "responded" /\ api.resp.status = 500)
    => api.resp.text = Stringify(ClientDegraded)

\* C8 amended: the 500 body of the service has the same riskScore,
\* riskLevel, recommendation and analysis as the client's degraded-mode
\* record and the same keys; its indicators are
\* ["Analysis failed due to server error"] where the client's are
\* ["Analysis failed due to network error"].
C8_ServerFallbackDiffersInIndicator ==
    (api.pc = "responded" /\ api.resp.status = 500)
    => /\ api.resp.text.tag = "object"
       /\ api.resp.text.obj.present = ClientDegraded.present
       /\ api.resp.text.obj.riskScore = ClientDegraded.riskScore
       /\ api.resp.text.obj.riskLevel = ClientDegraded.riskLevel
       /\ api.resp.text.obj.recommendation = ClientDegraded.recommendation
       /\ api.resp.text.obj.analysis = ClientDegraded.analysis
       /\ api.resp.text.obj.indicators
             = <<"Analysis failed due to server error">>
       /\ ClientDegraded.indicators
             = <<"Analysis failed due to network error">>

C8_Witness ==
    /\ api.pc = "responded"
    /\ api.resp.status = 500
    /\ api.ai.kind = "throw"
    /\ api.resp.aiCalled

\* The AI backend failed for a request that has a url: it threw, or its
\* output is empty, is not JSON, or is not an object with the four
\* required keys.
AiFailed ==
    /\ UrlGiven(api.req)
    /\ \/ api.ai.kind \in {"nokey", "throw"}
       \/ api.ai.text.tag \in {"empty", "invalid", "null"}
       \/ /\ api.ai.text.tag = "object"
          /\ ~({"riskScore", "indicators", "recommendation", "analysis"}
                 \subseteq api.ai.text.obj.present)

\* C9: whenever the AI backend throws or returns output that is empty or
\* not of the required shape, the service answers 500 with the
\* degraded-mode body (riskScore 50, suspicious), never 200.
C9_AiFailureAnswered500 ==
    (api.pc = "responded" /\ AiFailed)
    => /\ api.resp.status = 500
       /\ api.resp.text.tag = "object"
       /\ api.resp.text.obj.riskScore = 50
       /\ api.resp.text.obj.riskLevel = "suspicious"

\* C10: a request whose url is missing or empty is answered 400 with an
\* error message, and the AI backend is not called for it.
C10_MissingUrlAnswered400 ==
    (api.pc = "responded"
        /\ (~Has(api.req, "url") \/ api.req.url = ""))
    => /\ api.resp.status = 400
       /\ api.resp.text.tag = "object"
       /\ Has(api.resp.text.obj, "error")
       /\ api.resp.text.obj.error # ""
       /\ ~api.resp.aiCalled

C10_Witness ==
    /\ api.pc = "responded"
    /\ Has(api.req, "url")
    /\ api.req.url = ""
    /\ api.resp.status = 400

\* Key f of object a is in record r with the value it has in a.
Kept(a, r, f) == HasValue(a, f) /\ r[f] = a[f]

\* C11 as stated: when handleScan builds the ScanResult from the object
\* analyzeUrl resolved with, each of the five keys the object has is kept
\* as it is, and each key it lacks takes its default: riskScore 0,
\* riskLevel suspicious, indicators the empty sequence, recommendation and
\* analysis the empty string.
C11_MissingFieldsDefaulted ==
    [][\A c \in BagToSet(inflight) : \A ex \in AnyExchanges :
         (ScanCompletes(c, ex) /\ analyzeUrl(ex).kind = "object")
            => LET a == analyzeUrl(ex).obj
                   r == queued'.currentResult
               IN  /\ r.url = c.url
                   /\ IF Has(a, "riskScore") THEN Kept(a, r, "riskScore")
                      ELSE r.riskScore = 0
                   /\ IF Has(a, "riskLevel") THEN Kept(a, r, "riskLevel")
                      ELSE r.riskLevel = "suspicious"
                   /\ IF Has(a, "indicators") THEN Kept(a, r, "indicators")
                      ELSE r.indicators = <<>>
                   /\ IF Has(a, "recommendation")
                      THEN Kept(a, r, "recommendation")
                      ELSE r.recommendation = ""
                   /\ IF Has(a, "analysis") THEN Kept(a, r, "analysis")
                      ELSE r.analysis = ""
                   /\ queued'.history[1] = r]_vars

\* The value of key f of object a is falsy: the key is absent, or holds
\* null, 0 or "".
Falsy(a, f) ==
    \/ ~HasValue(a, f)
    \/ f = "riskScore" /\ a[f] = 0
    \/ f \in {"riskLevel", "recommendation", "analysis"} /\ a[f] = ""

\* C11 amended: when handleScan builds the ScanResult from the object
\* analyzeUrl resolved with, each of the five keys that is absent or holds
\* a falsy value (null, 0, "") takes its default: riskScore 0, riskLevel
\* suspicious, indicators the empty sequence, recommendation and analysis
\* the empty string; every other value is kept as it is, a value of
\* another type than the ScanResult's (a string for indicators) included.
C11_FalsyFieldsDefaulted ==
    [][\A c \in BagToSet(inflight) : \A ex \in AnyExchanges :
         (ScanCompletes(c, ex) /\ analyzeUrl(ex).kind = "object")
            => LET a == analyzeUrl(ex).obj
                   r == queued'.currentResult
               IN  /\ r.url = c.url
                   /\ r.riskScore = IF Falsy(a, "riskScore")
                                    THEN 0 ELSE a.riskScore
                   /\ r.riskLevel = IF Falsy(a, "riskLevel")
                                    THEN "suspicious" ELSE a.riskLevel
                   /\ r.indicators = IF Falsy(a, "indicators")
                                     THEN <<>> ELSE a.indicators
                   /\ r.recommendation = IF Falsy(a, "recommendation")
                                         THEN "" ELSE a.recommendation
                   /\ r.analysis = IF Falsy(a, "analysis")
                                   THEN "" ELSE a.analysis
                   /\ queued'.history[1] = r]_vars

\* A response whose riskLevel and recommendation are absent or falsy has
\* become a record that keeps its score, indicators and analysis.
C11_Witness ==
    /\ screen = "result"
    /\ currentResult.id.kind = "random"
    /\ currentResult.riskScore = 85
    /\ currentResult.riskLevel = "suspicious"
    /\ currentResult.recommendation = ""
    /\ currentResult.indicators = <<"lookalike domain">>
    /\ currentResult.analysis = "..."
    /\ history = <<currentResult>>

\* C12: once the cleanup of a Scanner effect instance has run, no tick
\* scheduled by that instance executes again: no step is a tick of a
\* cleaned-up instance handing a code to onScan.
C12_NoTickAfterCleanup ==
    [][\A s \in BagToSet(zombies.raf) : \A d \in QrPayloads :
         ~ZombieTickCode(s, d)]_vars

\* C13: once the scanning screen has been left and every pending camera
\* callback has run, no stream the Scanner opened remains un-stopped.
C13_NoStreamLeftOpen ==
    (~scanner.mounted /\ scanner.phase = "none" /\ zombies.dead = 0
        /\ passive = {})
        => ~zombies.leaked

\* C14: every URL in blockedUrls is the url of a ScanResult that was
\* created with riskLevel high-risk (it is in the history, which loses no
\* entry in a session of this length); the only update of blockedUrls that
\* is ever queued comes with such a result and adds its url, a
\* degraded-mode or defaulted result adds nothing; and blockedUrls as
\* rendered changes only to what was queued.
C14_BlockedOnlyByHighRisk ==
    /\ [](\A u \in Range(blockedUrls) :
             \E r \in Range(history) :
                 r.url = u /\ r.riskLevel = "high-risk")
    /\ [][queued'.blockedUrls # queued.blockedUrls
            => LET r == queued'.currentResult
               IN  /\ r.riskLevel = "high-risk"
                   /\ r.id.kind = "random"
                   /\ Len(queued'.history) >= 1
                   /\ queued'.history[1] = r
                   /\ Range(queued'.blockedUrls)
                         = Range(queued.blockedUrls) \cup {r.url}]_vars
    /\ [][blockedUrls' # blockedUrls
            => blockedUrls' = queued.blockedUrls]_vars

\* One URL is blocked, and the degraded-mode result of another URL is in
\* the history without that URL being blocked.
C14_Witness ==
    /\ Len(blockedUrls) = 1
    /\ \E r \in Range(history) :
         /\ r.riskScore = 50
         /\ r.riskLevel = "suspicious"
         /\ ~includes(blockedUrls, r.url)
    /\ \E r \in Range(history) :
         /\ r.riskLevel = "high-risk"
         /\ includes(blockedUrls, r.url)

\* C15: blockedUrls, rendered or queued, never holds the same URL twice.
C15_BlockedUrlsNoDuplicates ==
    \A b \in {blockedUrls, queued.blockedUrls} :
        \A i, j \in 1..Len(b) : b[i] = b[j] => i = j

\* Two scans of the same URL have both completed with high-risk, and the
\* URL is in blockedUrls once.
C15_Witness ==
    /\ Len(history) = 2
    /\ history[1].url = history[2].url
    /\ history[1].riskLevel = "high-risk"
    /\ history[2].riskLevel = "high-risk"
    /\ blockedUrls = <<history[1].url>>

\* C16: no step removes a URL from blockedUrls, neither from the rendered
\* list nor from the one queued.
C16_BlockedUrlsOnlyGrow ==
    [][/\ Range(blockedUrls) \subseteq Range(blockedUrls')
       /\ Range(queued.blockedUrls) \subseteq Range(queued'.blockedUrls)]_vars

\* blockedUrls has grown twice.
C16_Witness ==
    /\ Len(blockedUrls) = 2
    /\ blockedUrls[1] # blockedUrls[2]

\* C17: the Scanner's cancel sets the screen to home, issues no assessment
\* call and leaves history, blockedUrls and currentResult as they are (as
\* the updates queued before the click make them).
C17_CancelGoesHomeOnly ==
    [][Cancel
         => /\ screen = "scanning"
            /\ screen' = "home"
            /\ inflight' = inflight
            /\ isAnalyzing' = queued.isAnalyzing
            /\ history' = queued.history
            /\ blockedUrls' = queued.blockedUrls
            /\ currentResult' = queued.currentResult]_vars

\* The cancel button can be pressed while a result, a history and a
\* blocked URL are there to be kept.
C17_Witness ==
    /\ screen = "scanning"
    /\ scanner.mounted
    /\ PageReachable
    /\ currentResult # NoResult
    /\ history # <<>>
    /\ blockedUrls # <<>>

\* C18: clicking the i-th history item sets the screen to result and
\* currentResult to exactly that stored record, issues no assessment call
\* and leaves history and blockedUrls as they are (as the updates queued
\* before the click make them).
C18_SelectShowsStoredRecord ==
    [][\A i \in 1..MaxPick :
         SelectHistory(i)
            => /\ screen' = "result"
               /\ currentResult' = history[i]
               /\ inflight' = inflight
               /\ isAnalyzing' = queued.isAnalyzing
               /\ history' = queued.history
               /\ blockedUrls' = queued.blockedUrls]_vars

\* The older of two records is shown: only a click on it leads here.
C18_Witness ==
    /\ screen = "result"
    /\ Len(history) = 2
    /\ currentResult = history[2]
    /\ currentResult # history[1]

\* C19: every run of the pipeline whose exchange ends reaches a state in
\* which the screen is result, currentResult is a well-formed record and
\* isAnalyzing is cleared.
C19_PipelineAlwaysFinishes ==
    (Pending > 0)
        ~> /\ Pending = 0
           /\ screen = "result"
           /\ ~isAnalyzing
           /\ currentResult.id.kind = "random"
           /\ currentResult.riskLevel \in {"safe", "suspicious", "high-risk"}

\* The stored text of a key is bad: the key is absent, its text does not
\* parse, or it parses to something that is no array.
BadKey(text) == text.tag # "array"

\* C20: whatever the two keys hold at startup and whether or not the store
\* throws on reads and writes, the application starts on the home screen,
\* history and blockedUrls are empty where their key held bad data (or
\* could not be read), and the ErrorBoundary is not in its error state,
\* neither when AppContent is mounted nor when its persist effect has run.
C20_StartupSurvivesPersistence ==
    /\ [](~hasError)
    /\ [][AppStart
            => /\ screen' = "home"
               /\ (localStorage.getThrows \/ BadKey(localStorage.history))
                     => history' = <<>>
               /\ (localStorage.getThrows \/ BadKey(localStorage.blocked))
                     => blockedUrls' = <<>>]_vars

\* An operation is completed when its updates are rendered and the persist
\* effect of that commit has run.
Settled == ~queued.persist /\ "persist" \notin passive

\* C21: a commit that changes history or blockedUrls schedules the persist
\* effect (or runs it at once); once the effect has run both keys of the
\* store hold the current values, and a reload of the page after completed
\* operations brings back history and blockedUrls as they were before it.
C21_RestartRehydrates ==
    /\ []("persist" \notin passive
            => /\ localStorage.history = SArray(history)
               /\ localStorage.blocked = SArray(blockedUrls))
    /\ [][(history' # history \/ blockedUrls' # blockedUrls)
            => \/ "persist" \in passive'
               \/ /\ localStorage'.history = SArray(history')
                  /\ localStorage'.blocked = SArray(blockedUrls')]_vars
    /\ [][(Restart /\ Settled) => /\ history' = history
                                  /\ blockedUrls' = blockedUrls
                                  /\ screen' = "home"
                                  /\ ~hasError']_vars

\* C22: whenever an assessment call is pending, isAnalyzing is true: the
\* value that is rendered or, when an update of it is queued, the value
\* queued.
C22_BusyWhilePending == (Pending > 0) => queued.isAnalyzing

\* C23: when exactly one of the two keys holds text that does not parse and
\* the other holds an array, the start of the application empties only the
\* unparsable one: the other array is loaded, and the first persist write
\* (the store is still as it was at the start when that effect runs) leaves
\* its stored value as it was.
C23_KeysLoadedIndependently ==
    /\ [][(AppStart /\ ~localStorage.getThrows)
            => /\ (localStorage.history.tag = "invalid"
                      /\ localStorage.blocked.tag = "array")
                    => /\ history' = <<>>
                       /\ blockedUrls' = localStorage.blocked.arr
               /\ (localStorage.blocked.tag = "invalid"
                      /\ localStorage.history.tag = "array")
                    => /\ blockedUrls' = <<>>
                       /\ history' = localStorage.history.arr]_vars
    /\ [][(PassiveEffects /\ ~localStorage.getThrows)
            => /\ (localStorage.history.tag = "invalid"
                      /\ localStorage.blocked.tag = "array")
                    => localStorage'.blocked = localStorage.blocked
               /\ (localStorage.blocked.tag = "invalid"
                      /\ localStorage.history.tag = "array")
                    => localStorage'.history = localStorage.history]_vars

\* C24: the result screen never shows a record with riskLevel safe (the
\* one for which "Open Secure Link" is offered, App.tsx:437) whose url is
\* in blockedUrls.
C24_NoOpenLinkForBlockedUrl ==
    ~(/\ screen = "result"
      /\ currentResult.riskLevel = "safe"
      /\ includes(blockedUrls, currentResult.url))

\* C25: whenever the screen is result, currentResult is defined; a
\* navigation that supplies no result (to home, scanning or history)
\* leaves currentResult as it was (as the updates queued before the click
\* make it).
C25_ResultScreenHasResult ==
    /\ [](screen = "result" => currentResult # NoResult)
    /\ [][(StartScan \/ ViewAll \/ Back \/ Rescan \/ Cancel \/ BackToSafety)
            => currentResult' = queued.currentResult]_vars

\* The history screen was opened after a result had been shown and left:
\* two navigations without a result, and the result is still there.
C25_Witness ==
    /\ screen = "history"
    /\ currentResult # NoResult
    /\ currentResult = history[1]

====
